---- MODULE Spec2Model ----
(***************************************************************************)
(* Model of simple-agent/main.py: main() opens a stdio channel to the tool *)
(* subprocess, opens a client session on it, performs the handshake, loads *)
(* the tools, builds the agent, and runs a read / invoke / print loop.     *)
(*                                                                         *)
(* The agent object (create_react_agent) is library code that main.py only *)
(* constructs and invokes.  Its inner loop is modelled after the reasoning *)
(* loop of the specification (section 4.4); it works on the message list   *)
(* it was handed in the input mapping and hands back its own list in the   *)
(* response (main.py reads agent_response["messages"][-1]); the caller's   *)
(* list `messages` is changed only by main.py itself.                      *)
(***************************************************************************)
EXTENDS Integers, Sequences, FiniteSets, TLC

(***************************************************************************)
(* Text.  A text is a slice of one of a few endless character streams:     *)
(* fam names the stream, off the index of its first character and len its  *)
(* length.  The stream "quit" starts with the characters q, u, i, t, so    *)
(* its slice [0, 1) is the text "q" and its slice [0, 4) the text "quit".  *)
(***************************************************************************)
Text(f, n) == [fam |-> f, off |-> 0, len |-> n]

Min(a, b) == IF a <= b THEN a ELSE b

\* s[:n] for n >= 0 (main.py line 120): the first min(len(s), n) characters.
SliceMut(s, n) == [s EXCEPT !.off = IF s.len > n THEN s.len - n ELSE 0,
                            !.len = Min(s.len, n)]
Slice(s, n) == [s EXCEPT !.len = Min(s.len, n)]

\* the cap of line 120
Cap == 175000

\* the number of lines read in one run of the model
MaxTurns == 2

\* the reasoning loop's iteration bound N (oracle queries per turn)
MaxIterations == 2

Quit == Text("quit", 4)
Q == Text("quit", 1)

\* the lines the user may type
Inputs ==
    { Quit, Q, Text("quit", 5), Text("hi", 2), Text("hi", 0),
      Text("long", Cap), Text("long", Cap + 1), Text("long", 2 * Cap) }

\* user_input in {"quit", "q"} (line 113)
IsExitMut(s) == s = Text("quit", 4)
IsExit(s) == s \in {Text("quit", 4), Text("quit", 1)}

SystemPrompt == Text("system_prompt", 163)

Msg(r, c) == [role |-> r, content |-> c]

None == [none |-> TRUE]

\* what the tool subprocess may offer, and what the oracle may ask for
Catalogs == { {}, {"scrape"}, {"scrape", "crawl"} }
CallNames == {"scrape", "bogus"}

\* what the oracle may answer
Answers == { Text("X", 1), Text("Y", 1) }

Fallback == Text("loop_aborted", 12)
NotFound == Text("tool_not_found", 14)
ToolResults == { Text("tool_result", 11), Text("tool_failed", 11) }

VARIABLES
    pc,          \* where main() is
    channel,     \* the stdio transport and its subprocess
    session,     \* the client session's lifecycle state
    tools,       \* the tool catalog loaded at startup
    messages,    \* the conversation history of main()
    user_input,  \* the line last read
    out,         \* the line last printed
    ev,          \* the step last taken
    state,       \* the agent's own message list of the current invocation
    apc,         \* where the agent's loop is
    pending,     \* the tool request awaiting its response
    iter,        \* oracle queries of the current invocation
    calls,       \* tool requests of the current invocation
    invocations, \* agent invocations so far
    turns,       \* lines read so far that were no exit token
    listed       \* tool listings requested so far

vars == <<pc, channel, session, tools, messages, user_input, out, ev,
          state, apc, pending, iter, calls, invocations, turns, listed>>

mainVars == <<pc, channel, session, tools, messages, user_input, out>>
agentVars == <<state, apc, pending, iter, calls>>
countVars == <<invocations, turns, listed>>

Line(k, t) == [kind |-> k, text |-> t]

Init ==
    /\ pc = "launch"
    /\ channel = "none"
    /\ session = "Unopened"
    /\ tools = {}
    /\ messages = <<>>
    /\ user_input = None
    /\ out = Line("none", None)
    /\ ev = "init"
    /\ state = <<>>
    /\ apc = "idle"
    /\ pending = None
    /\ iter = 0
    /\ calls = 0
    /\ invocations = 0
    /\ turns = 0
    /\ listed = 0

(***************************************************************************)
(* Startup: lines 77-106.                                                  *)
(***************************************************************************)

\* async with stdio_client(server_params) (line 77) and
\* async with ClientSession(read, write) (line 80): the subprocess is
\* spawned and the session opened on its pipes.
OpenChannel ==
    /\ pc = "launch"
    /\ channel' = "open"
    /\ session' = "Initializing"
    /\ pc' = "handshake"
    /\ ev' = "launch"
    /\ UNCHANGED <<tools, messages, user_input, out, agentVars, countVars>>

\* the subprocess cannot be spawned: main() ends before the scope is entered
LaunchFails ==
    /\ pc = "launch"
    /\ pc' = "done"
    /\ ev' = "launch_failed"
    /\ UNCHANGED <<channel, session, tools, messages, user_input, out,
                   agentVars, countVars>>

\* await session.initialize() (line 81)
Handshake ==
    /\ pc = "handshake"
    /\ session' = "Ready"
    /\ pc' = "discover"
    /\ ev' = "handshake"
    /\ UNCHANGED <<channel, tools, messages, user_input, out, agentVars,
                   countVars>>

\* initialize() raises: the exception leaves both with-blocks
HandshakeFails ==
    /\ pc = "handshake"
    /\ session' = "Error"
    /\ pc' = "unwind_session"
    /\ ev' = "handshake_failed"
    /\ UNCHANGED <<channel, tools, messages, user_input, out, agentVars,
                   countVars>>

\* tools = await load_mcp_tools(session); agent = create_react_agent(...);
\* messages = [system prompt]; the banner is printed (lines 84-106)
Discover(catalog) ==
    /\ pc = "discover"
    /\ listed' = listed + 1
    /\ tools' = catalog
    /\ messages' = <<Msg("system", SystemPrompt)>>
    /\ out' = Line("Banner", Text("tools", Cardinality(catalog)))
    /\ pc' = "prompt"
    /\ ev' = "discover"
    /\ UNCHANGED <<channel, session, user_input, agentVars, invocations, turns>>

\* load_mcp_tools raises
DiscoverFails ==
    /\ pc = "discover"
    /\ listed' = listed + 1
    /\ session' = "Error"
    /\ pc' = "unwind_session"
    /\ ev' = "discover_failed"
    /\ UNCHANGED <<channel, tools, messages, user_input, out, agentVars,
                   invocations, turns>>

(***************************************************************************)
(* Leaving the with-blocks, by return or by exception: the session's       *)
(* __aexit__ runs first (line 80), then the transport's (line 77).         *)
(***************************************************************************)
ExitSessionScope ==
    /\ pc = "unwind_session"
    /\ session' = "Closed"
    /\ pc' = "unwind_channel"
    /\ ev' = "close_session"
    /\ UNCHANGED <<channel, tools, messages, user_input, out, agentVars,
                   countVars>>

ExitChannelScopeLeak ==
    /\ pc = "unwind_channel"
    /\ pc' = "done"
    /\ ev' = "release_channel"
    /\ UNCHANGED <<channel, session, tools, messages, user_input, out,
                   agentVars, countVars>>

ExitChannelScope ==
    /\ pc = "unwind_channel"
    /\ channel' = "released"
    /\ pc' = "done"
    /\ ev' = "release_channel"
    /\ UNCHANGED <<session, tools, messages, user_input, out, agentVars,
                   countVars>>

(***************************************************************************)
(* The REPL: lines 109-133.                                                *)
(***************************************************************************)

\* messages.append({"role": "user", "content": user_input[:175000]})
AppendUserSkip(h, s) == h
AppendUserSystem(h, s) == Append(h, Msg("system", Slice(s, Cap)))
AppendUserMut(h, s) == <<Msg("user", Slice(s, Cap))>> \o h
AppendUser(h, s) == Append(h, Msg("user", Slice(s, Cap)))

\* the tools are loaded again for every line read
ReadInputReloads(s) ==
    /\ pc = "prompt"
    /\ user_input' = s
    /\ IF s \in {Text("quit", 4), Text("quit", 1)}
       THEN /\ out' = Line("Goodbye", Text("Goodbye!", 8))
            /\ pc' = "unwind_session"
            /\ ev' = "exit"
            /\ UNCHANGED <<messages, agentVars, invocations, turns, tools,
                           listed>>
       ELSE /\ turns < MaxTurns
            /\ turns' = turns + 1
            /\ listed' = listed + 1
            /\ tools' \in Catalogs
            /\ messages' = Append(messages, Msg("user", Slice(s, Cap)))
            /\ invocations' = invocations + 1
            /\ state' = messages'
            /\ apc' = "oracle"
            /\ iter' = 0
            /\ calls' = 0
            /\ pc' = "turn"
            /\ ev' = "input"
            /\ UNCHANGED <<out, pending>>
    /\ UNCHANGED <<channel, session>>

\* user_input = input(...); the exit test; otherwise the append and the
\* start of agent.ainvoke({"messages": messages}) (lines 110-125)
ReadInput(s) ==
    /\ pc = "prompt"
    /\ user_input' = s
    /\ IF IsExit(s)
       THEN /\ out' = Line("Goodbye", Text("Goodbye!", 8))
            /\ pc' = "unwind_session"
            /\ ev' = "exit"
            /\ UNCHANGED <<messages, agentVars, invocations, turns>>
       ELSE /\ turns < MaxTurns
            /\ turns' = turns + 1
            /\ messages' = AppendUser(messages, s)
            /\ invocations' = invocations + 1
            /\ state' = messages'
            /\ apc' = "oracle"
            /\ iter' = 0
            /\ calls' = 0
            /\ pc' = "turn"
            /\ ev' = "input"
            /\ UNCHANGED <<out, pending>>
    /\ UNCHANGED <<channel, session, tools, listed>>

\* input() raises (end of input, interruption): nothing catches it in main()
InputRaises ==
    /\ pc = "prompt"
    /\ pc' = "unwind_session"
    /\ ev' = "input_raised"
    /\ UNCHANGED <<channel, session, tools, messages, user_input, out,
                   agentVars, countVars>>

(***************************************************************************)
(* Inside agent.ainvoke (line 125): the reasoning loop.  Each round asks   *)
(* the oracle for a decision on the list `state`; a final answer ends the  *)
(* loop, a tool call adds an observation and starts another round.         *)
(***************************************************************************)

\* the loop may ask the oracle again
MayAskMut(i) == i <= MaxIterations
MayAsk(i) == i < MaxIterations

\* the name is one of the loaded tools
InCatalogMut(n) == TRUE
InCatalog(n) == n \in tools

\* where the loop goes after an observation: always back to the oracle
\* query (the bound is applied there)
AfterObservationMut == "finished"
AfterObservation == "oracle"

\* where the loop goes after sending a tool request: it waits for the
\* response before anything else
AfterRequestMut == "oracle"
AfterRequest == "tool_wait"

\* the oracle decides FinalAnswer(t)
OracleFinal(t) ==
    /\ pc = "turn" /\ apc = "oracle" /\ MayAsk(iter)
    /\ iter' = iter + 1
    /\ state' = Append(state, Msg("assistant", t))
    /\ apc' = "finished"
    /\ ev' = "final"
    /\ UNCHANGED <<mainVars, pending, calls, countVars>>

\* the oracle decides ToolCall(n, ...) for a loaded tool: the request goes
\* to the session; the subprocess will answer it (r) or never will
OracleCallsTool(n, r) ==
    /\ pc = "turn" /\ apc = "oracle" /\ MayAsk(iter)
    /\ InCatalog(n)
    /\ iter' = iter + 1
    /\ pending' = [name |-> n, responsive |-> r]
    /\ calls' = calls + 1
    /\ apc' = AfterRequest
    /\ ev' = "toolcall"
    /\ UNCHANGED <<mainVars, state, countVars>>

\* the oracle decides ToolCall(n, ...) for a name that is not loaded
OracleCallsUnknown(n) ==
    /\ pc = "turn" /\ apc = "oracle" /\ MayAsk(iter)
    /\ ~InCatalog(n)
    /\ iter' = iter + 1
    /\ state' = Append(state, Msg("tool", NotFound))
    /\ apc' = AfterObservation
    /\ ev' = "notfound"
    /\ UNCHANGED <<mainVars, pending, calls, countVars>>

\* the oracle query raises: ainvoke raises, and the handler of lines
\* 132-133 prints the error; the loop of line 109 goes on
OracleFails ==
    /\ pc = "turn" /\ apc = "oracle" /\ MayAsk(iter)
    /\ iter' = iter + 1
    /\ apc' = "idle"
    /\ out' = Line("Error", Text("oracle_error", 12))
    /\ pc' = "prompt"
    /\ ev' = "oracle_failed"
    /\ UNCHANGED <<channel, session, tools, messages, user_input, state,
                   pending, calls, countVars>>

\* the bound is reached: the loop ends with the fallback answer
AbortFallback ==
    /\ pc = "turn" /\ apc = "oracle" /\ ~MayAsk(iter)
    /\ state' = Append(state, Msg("assistant", Fallback))
    /\ apc' = "finished"
    /\ ev' = "fallback"
    /\ UNCHANGED <<mainVars, pending, iter, calls, countVars>>

\* the response to the outstanding request arrives: a result or a
\* tool-side failure, either way an observation.  No timeout is set on the
\* session (line 80) nor around the invocation (line 125): a request the
\* subprocess never answers stays outstanding.  A session that has failed
\* delivers no responses any more.
ToolReturns(res) ==
    /\ pc = "turn" /\ apc = "tool_wait"
    /\ session = "Ready"
    /\ pending # None /\ pending.responsive
    /\ state' = Append(state, Msg("tool", res))
    /\ pending' = None
    /\ apc' = AfterObservation
    /\ ev' = "tool_return"
    /\ UNCHANGED <<mainVars, iter, calls, countVars>>

\* the channel breaks while the request is outstanding: the session raises,
\* ainvoke raises, and the handler of lines 132-133 prints the error
ToolChannelFails ==
    /\ pc = "turn" /\ apc = "tool_wait"
    /\ pending # None
    /\ pending' = None
    /\ session' = "Error"
    /\ apc' = "idle"
    /\ out' = Line("Error", Text("channel_closed", 14))
    /\ pc' = "prompt"
    /\ ev' = "channel_failed"
    /\ UNCHANGED <<channel, tools, messages, user_input, state, iter,
                   calls, countVars>>

\* ai_message = agent_response["messages"][-1].content (line 128)
ai_messageMut(resp) == resp[1].content
ai_message(resp) == resp[Len(resp)].content

\* ainvoke returns; the answer is printed (lines 128-130)
AgentReturns ==
    /\ pc = "turn" /\ apc = "finished"
    /\ out' = Line("Agent", ai_message(state))
    /\ apc' = "idle"
    /\ pc' = "prompt"
    /\ ev' = "return"
    /\ UNCHANGED <<channel, session, tools, messages, user_input, state,
                   pending, iter, calls, countVars>>

\* a cancellation or interruption arrives while ainvoke is suspended: it is
\* no Exception, so line 132 does not catch it and main() is left
TurnInterrupted ==
    /\ pc = "turn" /\ apc \in {"oracle", "tool_wait"}
    /\ pending' = None
    /\ apc' = "idle"
    /\ pc' = "unwind_session"
    /\ ev' = "interrupted"
    /\ UNCHANGED <<channel, session, tools, messages, user_input, out,
                   state, iter, calls, countVars>>

Next ==
    \/ OpenChannel
    \/ LaunchFails
    \/ Handshake
    \/ HandshakeFails
    \/ \E c \in Catalogs : Discover(c)
    \/ DiscoverFails
    \/ ExitSessionScope
    \/ ExitChannelScope
    \/ \E s \in Inputs : ReadInput(s)
    \/ InputRaises
    \/ \E t \in Answers : OracleFinal(t)
    \/ \E n \in CallNames, r \in BOOLEAN : OracleCallsTool(n, r)
    \/ \E n \in CallNames : OracleCallsUnknown(n)
    \/ OracleFails
    \/ AbortFallback
    \/ \E res \in ToolResults : ToolReturns(res)
    \/ ToolChannelFails
    \/ AgentReturns
    \/ TurnInterrupted

Spec == Init /\ [][Next]_vars

\* The steps the program and a responding subprocess or oracle take by
\* themselves (a request on a session that has failed raises at once).
\* Typing a line, interrupting, and a failure of the oracle or of a working
\* channel are left to the environment.
Progress ==
    \/ OpenChannel
    \/ Handshake
    \/ \E c \in Catalogs : Discover(c)
    \/ ExitSessionScope
    \/ ExitChannelScope
    \/ \E t \in Answers : OracleFinal(t)
    \/ AbortFallback
    \/ \E res \in ToolResults : ToolReturns(res)
    \/ (session = "Error" /\ ToolChannelFails)
    \/ AgentReturns

FairSpec == Spec /\ WF_vars(Progress)
Last(h) == h[Len(h)]

IsPrefixSeq(a, b) ==
    /\ Len(a) <= Len(b)
    /\ \A i \in 1..Len(a) : b[i] = a[i]

(***************************************************************************)
(* C1.  The conversation history is append-only: every step leaves each    *)
(* entry of `messages` where it was, with the same role and content, and   *)
(* only adds entries at the end.                                           *)
(***************************************************************************)
C1_AppendOnly == [][IsPrefixSeq(messages, messages')]_vars

\* two turns were read, the second after a failed first turn's history
C1_Witness ==
    /\ Len(messages) = 3
    /\ ev = "oracle_failed"
    /\ messages[2].role = "user" /\ messages[3].role = "user"

(***************************************************************************)
(* C2.  When the line read is exactly "quit" or exactly "q", the REPL      *)
(* ends: the history is left as it was, the agent is not invoked for that  *)
(* line, and main() leaves the loop and never comes back to it.            *)
(***************************************************************************)
C2_ExitToken ==
    [][ /\ ( /\ pc = "prompt"
             /\ ev' \in {"exit", "input"}
             /\ user_input' \in {Text("quit", 4), Text("quit", 1)} )
           => ( /\ messages' = messages
                /\ invocations' = invocations
                /\ iter' = iter /\ state' = state /\ apc' = "idle"
                /\ out'.kind = "Goodbye"
                /\ pc' = "unwind_session" )
        /\ pc \in {"unwind_session", "unwind_channel", "done"}
           => pc' \in {"unwind_channel", "done"}
      ]_vars

\* "q" was read after one complete turn
C2_Witness ==
    /\ ev = "exit"
    /\ user_input = Text("quit", 1)
    /\ Len(messages) = 2
    /\ invocations = 1
(***************************************************************************)
(* C3.  After a turn in which the oracle decided FinalAnswer(text), the    *)
(* history of main() ends with an assistant message holding text, and text *)
(* is what was printed as the turn's result.                               *)
(***************************************************************************)
C3_AssistantAppended ==
    (ev = "return" /\ out.text \in Answers)
        => /\ out.kind = "Agent"
           /\ Last(messages) = Msg("assistant", out.text)

(***************************************************************************)
(* C4.  When the oracle fails during a turn, the turn ends with a printed  *)
(* error and the history of main() holds the turn's user message and every *)
(* tool observation the loop had added before the failure.                 *)
(***************************************************************************)
C4_NoRollback ==
    ev = "oracle_failed"
        => /\ out.kind = "Error" /\ pc = "prompt"
           /\ IsPrefixSeq(state, messages)

(***************************************************************************)
(* C5.  A turn in which every oracle decision is a ToolCall ends after     *)
(* exactly MaxIterations oracle queries: the loop never asks more often,   *)
(* at the bound only the fallback step is possible, and the fallback       *)
(* message is what main() prints as the agent's answer (not an error).     *)
(***************************************************************************)
OracleQuery ==
    \/ \E t \in Answers : OracleFinal(t)
    \/ \E n \in CallNames, r \in BOOLEAN : OracleCallsTool(n, r)
    \/ \E n \in CallNames : OracleCallsUnknown(n)
    \/ OracleFails

\* the messages the loop has added in the current invocation
Added == SubSeq(state, Len(messages) + 1, Len(state))

OnlyToolCalls ==
    /\ Len(Added) = iter
    /\ \A i \in 1..Len(Added) : Added[i].role = "tool"

C5_BoundedLoop ==
    /\ iter <= MaxIterations
    /\ (pc = "turn" /\ apc = "oracle" /\ OnlyToolCalls /\ iter = MaxIterations)
           => (ENABLED AbortFallback /\ ~ENABLED OracleQuery)
    /\ ev = "fallback"
           => /\ iter = MaxIterations
              /\ Last(state) = Msg("assistant", Fallback)
              /\ apc = "finished"
    /\ (ev = "return" /\ Last(state) = Msg("assistant", Fallback))
           => /\ iter = MaxIterations
              /\ out = Line("Agent", Fallback)
              /\ pc = "prompt"

\* a turn of MaxIterations tool calls has ended with the fallback printed
C5_Witness ==
    /\ ev = "return"
    /\ out = Line("Agent", Fallback)
    /\ iter = MaxIterations
    /\ Len(state) = Len(messages) + MaxIterations + 1
    /\ \A i \in 1..MaxIterations : state[Len(messages) + i].role = "tool"

(***************************************************************************)
(* C6.  When the oracle's first decision of a turn is FinalAnswer(X), the  *)
(* loop ends after that one query without any tool request, and X is the   *)
(* turn's result, whatever the tool catalog holds.                         *)
(***************************************************************************)
FirstDecisionFinal ==
    /\ Len(state) = Len(messages) + 1
    /\ IsPrefixSeq(messages, state)
    /\ Last(state).role = "assistant"
    /\ Last(state).content \in Answers

C6_FinalFirst ==
    /\ (ev = "final" /\ FirstDecisionFinal)
           => (iter = 1 /\ calls = 0 /\ pending = None /\ apc = "finished")
    /\ (ev = "return" /\ FirstDecisionFinal)
           => /\ iter = 1 /\ calls = 0 /\ pending = None
              /\ out = Line("Agent", Last(state).content)

\* "X" was answered at once with two tools loaded
C6_Witness ==
    /\ ev = "return"
    /\ tools = {"scrape", "crawl"}
    /\ state = Append(messages, Msg("assistant", Text("X", 1)))
    /\ out = Line("Agent", Text("X", 1))
(***************************************************************************)
(* C7.  A ToolCall for a name that is not in the catalog never ends the    *)
(* turn with an error: a "tool not found" observation is added, no request *)
(* goes to the session, and the loop asks the oracle again in that turn.   *)
(***************************************************************************)
C7_UnknownToolAsksAgain ==
    ev = "notfound"
        => /\ pc = "turn"
           /\ Last(state) = Msg("tool", NotFound)
           /\ pending = None
           /\ apc = "oracle"
           /\ ENABLED OracleQuery

(***************************************************************************)
(* C7, amended.  A ToolCall for a name that is not in the catalog never    *)
(* ends the turn with an error: a "tool not found" observation is added    *)
(* and no request goes to the session (no request is ever outstanding for  *)
(* a name outside the catalog); the loop then asks the oracle again in     *)
(* that turn, unless the decision was the MaxIterations-th of the turn, in *)
(* which case the loop ends with the fallback answer.                      *)
(***************************************************************************)
C7_UnknownToolObserved ==
    /\ [](pending # None => pending.name \in tools)
    /\ [](ev = "notfound"
            => /\ pc = "turn"
               /\ Last(state) = Msg("tool", NotFound)
               /\ pending = None
               /\ apc = "oracle"
               /\ (iter < MaxIterations => ENABLED OracleQuery)
               /\ (iter >= MaxIterations =>
                      (ENABLED AbortFallback /\ ~ENABLED OracleQuery)))
    /\ [][ev' = "notfound" => (calls' = calls /\ pending' = None
                               /\ Len(state') = Len(state) + 1)]_vars

\* an unknown name was asked for first, and the oracle may be asked again
C7_Witness ==
    /\ ev = "notfound"
    /\ iter = 1
    /\ tools = {"scrape"}
    /\ calls = 0
    /\ ENABLED OracleQuery

(***************************************************************************)
(* C8.  For a line s that is no exit token, the content stored for the     *)
(* turn is the first min(len(s), 175000) characters of s: a longer line is *)
(* stored with length exactly 175000 as a strict prefix of s, a line no    *)
(* longer than that is stored unchanged.                                   *)
(***************************************************************************)
C8_Truncation ==
    (ev = "input" /\ user_input \notin {Text("quit", 4), Text("quit", 1)})
        => LET c == Last(messages).content
               s == user_input
           IN  /\ Last(messages).role = "user"
               /\ c.fam = s.fam /\ c.off = s.off
               /\ c.len = (IF s.len <= 175000 THEN s.len ELSE 175000)
               /\ (s.len > 175000 => (c.len = 175000 /\ c.len < s.len))
               /\ (s.len <= 175000 => c = s)

\* a line of 175001 characters was stored as its first 175000
C8_Witness ==
    /\ ev = "input"
    /\ user_input = Text("long", 175001)
    /\ Last(messages) = Msg("user", Text("long", 175000))

(***************************************************************************)
(* C9.  A tool request does not stay outstanding for ever: also when the   *)
(* subprocess never answers, the request ends (with a timeout) and the     *)
(* turn goes on.                                                           *)
(***************************************************************************)
C9_RequestEnds == (pending # None) ~> (pending = None)

(***************************************************************************)
(* C10.  Whenever the run has ended after the channel was opened, the      *)
(* session is Closed and the channel released; no state in which the run   *)
(* cannot go on has the channel open.                                      *)
(***************************************************************************)
C10_Released ==
    /\ (pc = "done" /\ channel # "none")
           => (session = "Closed" /\ channel = "released")
    /\ ~ENABLED Next => (pc = "done" /\ channel # "open")

\* the run ended because an interruption escaped a turn
C10_Witness ==
    /\ pc = "done"
    /\ channel = "released" /\ session = "Closed"
    /\ turns = 1 /\ apc = "idle" /\ iter = 1
    /\ out.kind = "Banner"
(***************************************************************************)
(* C11.  A failure of the channel or of the handshake ends the run, and    *)
(* nothing else does: while the session is in Error, main() is leaving     *)
(* (it is neither at the prompt nor in a turn) and no request is           *)
(* outstanding; a failed oracle query leaves main() at the prompt.         *)
(***************************************************************************)
C11_FatalEndsRun ==
    /\ session = "Error" => (pc = "unwind_session" /\ pending = None)
    /\ ev = "oracle_failed" => pc = "prompt"
    /\ ev = "tool_return" => pc = "turn"
(***************************************************************************)
(* C12.  When the agent invocation fails, an "Error:" line is printed and  *)
(* main() reads the next line with the session still usable; when the      *)
(* launch, the handshake or the tool discovery fails, the run ends without *)
(* a prompt having been shown and without any agent invocation.            *)
(***************************************************************************)
C12_TurnVsStartup ==
    /\ ev \in {"oracle_failed", "channel_failed"}
           => (out.kind = "Error" /\ pc = "prompt" /\ session = "Ready")
    /\ ev \in {"launch_failed", "handshake_failed", "discover_failed"}
           => /\ pc \in {"unwind_session", "done"}
              /\ invocations = 0 /\ turns = 0
              /\ user_input = None /\ messages = <<>>

(***************************************************************************)
(* C13.  The session moves only along Unopened -> Initializing -> Ready -> *)
(* Closed, with Error reachable from any state (and the release of an      *)
(* errored session on the way out); the handshake is made only on an open  *)
(* channel, the tools are listed only on a Ready session, the agent is     *)
(* invoked and a tool request sent only on a Ready session, and nothing is *)
(* issued on a Closed session.                                             *)
(***************************************************************************)
SessionMoves ==
    { <<"Unopened", "Initializing">>, <<"Initializing", "Ready">>,
      <<"Ready", "Closed">>,
      <<"Unopened", "Error">>, <<"Initializing", "Error">>,
      <<"Ready", "Error">>, <<"Error", "Closed">> }

C13_SessionLifecycle ==
    [][ /\ session' # session => <<session, session'>> \in SessionMoves
        /\ ev' \in {"handshake", "handshake_failed"}
               => (channel = "open" /\ session = "Initializing")
        /\ listed' # listed => (session = "Ready" /\ channel = "open")
        /\ invocations' # invocations => session = "Ready"
        /\ ev' = "toolcall" => session = "Ready"
        /\ session = "Closed"
               => /\ session' = "Closed" /\ pending' = None
                  /\ invocations' = invocations /\ listed' = listed
                  /\ iter' = iter /\ calls' = calls
      ]_vars
(***************************************************************************)
(* C14.  The tool catalog is taken once per run, before the first prompt:  *)
(* the tools are listed at most once, exactly once before any prompt, and  *)
(* from the first prompt on no step changes the catalog.                   *)
(***************************************************************************)
C14_CatalogSnapshot ==
    /\ [](listed <= 1)
    /\ [](pc \in {"prompt", "turn"} => listed = 1)
    /\ [][(pc = "prompt" \/ pc = "turn")
              => (tools' = tools /\ listed' = listed)]_vars

\* a tool result arrived in the second turn, the catalog listed once
C14_Witness ==
    /\ turns = 2
    /\ ev = "tool_return"
    /\ tools = {"scrape"}
    /\ listed = 1
(***************************************************************************)
(* C15.  A tool invocation that returns a failure result does not end the  *)
(* turn as an error: the failure is added as an observation and the loop   *)
(* asks the oracle again in that turn.                                     *)
(***************************************************************************)
ToolFailed == Text("tool_failed", 11)

C16_OneOutstanding ==
    /\ [](pending # None => (pc = "turn" /\ apc = "tool_wait"))
    /\ [](pc = "prompt" => (pending = None /\ apc = "idle"))
    /\ [][ev' = "toolcall" => (pending = None /\ pending' # None)]_vars

\* the second request of a turn was sent after the first was answered
C16_Witness ==
    /\ ev = "toolcall"
    /\ calls = 2
    /\ pending # None
    /\ Last(state).role = "tool"
(***************************************************************************)
(* C17.  Every line that is no exit token adds exactly one user message to *)
(* the history and then starts exactly one agent invocation, which is      *)
(* handed that message: the user messages in the history and the           *)
(* invocations both number the lines read that were no exit token, and a   *)
(* line is read only when no invocation is under way.                      *)
(***************************************************************************)
UserCount(h) == Cardinality({i \in 1..Len(h) : h[i].role = "user"})

C17_OnePerInput ==
    /\ [](UserCount(messages) = turns /\ invocations = turns)
    /\ [][turns' # turns
            => /\ pc = "prompt" /\ apc = "idle" /\ pending = None
               /\ user_input' \notin {Text("quit", 4), Text("quit", 1)}
               /\ turns' = turns + 1
               /\ messages' = Append(messages, Last(messages'))
               /\ Last(messages').role = "user"
               /\ invocations' = invocations + 1
               /\ state' = messages'
               /\ pc' = "turn"]_vars
    /\ [][user_input' # user_input => (pc = "prompt" /\ apc = "idle")]_vars

\* a second line was read after a failed first turn
C17_Witness ==
    /\ ev = "input"
    /\ turns = 2 /\ invocations = 2
    /\ UserCount(messages) = 2
    /\ out.kind = "Error"

(***************************************************************************)
(* C18.  From the first prompt on, the first entry of the history is the   *)
(* system message and no other entry is a system message.                  *)
(***************************************************************************)
C18_SystemFirst ==
    /\ pc \in {"prompt", "turn"} => Len(messages) >= 1
    /\ Len(messages) >= 1
           => /\ messages[1] = Msg("system", SystemPrompt)
              /\ \A i \in 2..Len(messages) : messages[i].role # "system"

\* two turns, one failed and one answered, are in the history
C18_Witness ==
    /\ Len(messages) = 3
    /\ ev = "return"
    /\ messages[1].role = "system"
    /\ invocations = 2
====
